---- MODULE Spec2Model ----
\* Model of the task2 data-access layer (src/task2/maria_operations.py) and of
\* its Flask routes (src/task2/app.py).  Every operation is one action that
\* runs the whole handler against a store whose calls may fail.
EXTENDS Integers, Sequences, FiniteSets, TLC

VARIABLES db, last, repeat, added, http

vars == <<db, last, repeat, added, http>>

\* ------------------------------------------------------------------ bounds
\* Largest row id the store hands out (the id column is auto-increment).
MaxId == 2

\* Most calls on the store that fail during one operation.
MaxFaults == 1

\* ------------------------------------------------------------- input sets
Usernames == {"", "1", "bob"}
Passwords == {"", "pw"}
UserIds == 0..MaxId
Hosts == {"localhost"}

\* --------------------------------------------------------------- constants
_HOST == "localhost"
_DB == "python_db"
ER_TABLE_EXISTS_ERROR == 1050

\* ------------------------------------------------------------------ errors
\* mysql.connector.Error carries errno and msg; any other Exception only a text.
MysqlErrors == { [kind |-> "mysql", errno |-> 2006, msg |-> "MySQL server has gone away"] }

OtherErrors == { [kind |-> "other", errno |-> 0, msg |-> "socket timeout"] }

Errors == MysqlErrors \cup OtherErrors

ErrUnknownDb == [kind |-> "mysql", errno |-> 1049, msg |-> "Unknown database"]
ErrDuplicate == [kind |-> "mysql", errno |-> 1062, msg |-> "Duplicate entry"]
ErrNoSuchUser == [kind |-> "mysql", errno |-> 1396, msg |-> "Operation DROP USER failed"]
ErrSyntax == [kind |-> "mysql", errno |-> 1064, msg |-> "You have an error in your SQL syntax"]

\* str(e): a mysql.connector.Error prints "<errno>: <msg>", another exception its text.
str(e) == IF e.kind = "mysql" THEN <<ToString(e.errno), ": ", e.msg>> ELSE <<e.msg>>

\* The calls on the store that may raise.
Sites == {"connect", "cursor", "execute", "commit", "rollback", "cursor.close", "close"}

\* The sets of calls that fail during one operation.
FaultPlans == {F \in SUBSET Sites : Cardinality(F) <= MaxFaults}

\* ------------------------------------------------------- response envelope
\* A Python dict: a function whose domain is the set of keys present.
EmptyDict == [k \in {} |-> TRUE]

SetKey(d, k, v) == [x \in (DOMAIN d) \cup {k} |-> IF x = k THEN v ELSE d[x]]

\* One call on the store and whether it raised.
Called(name, raised) == <<[call |-> name, raised |-> raised]>>

\* What an operation hands back: the envelope it returned, or the fact that it
\* raised; the calls it made on the store, the statements it passed to
\* execute, the errors that were raised and not swallowed, whether its
\* connection is still open and the store afterwards.
Outcome(env, raised, trace, stmts, errors, open, store) ==
    [env |-> env, raised |-> raised, trace |-> trace, stmts |-> stmts,
     errors |-> errors, open |-> open, db |-> store]

\* A statement handed to execute: a sequence of tokens, each a keyword part
\* and the name it is about.
Tok(kw, name) == [kw |-> kw, name |-> name]

Stmt(kw, name) == <<Tok(kw, name)>>

\* ------------------------------------------------------------------- store
\* The relational store, a black box to the program: the user rows (the id
\* column is assigned by the store), whether the database _DB exists and which
\* objects of the log schema exist.  A statement on the user rows takes effect
\* when it is committed.
InitialStore ==
    [users |-> {}, nextId |-> 1, database |-> FALSE, logsTable |-> FALSE, triggers |-> {}]

\* The store's answer to one statement: accepted, with the store as the
\* statement leaves it, or rejected with an error.
NoError == [kind |-> "none", errno |-> 0, msg |-> ""]

Accepted(store) == [raised |-> FALSE, error |-> NoError, db |-> store]

Rejected(store, error) == [raised |-> TRUE, error |-> error, db |-> store]

\* The insert with its two parameters in the wrong order.
InsertUserSwapped(store, username, password) ==
    IF \E r \in store.users : r.username = password /\ r.host = "localhost"
    THEN Rejected(store, ErrDuplicate)
    ELSE Accepted([store EXCEPT !.users = @ \cup {[id |-> store.nextId,
                                                   username |-> password,
                                                   host |-> "localhost"]},
                                !.nextId = @ + 1])

\* INSERT INTO mysql.user (User, Host, authentication_string, plugin)
\* VALUES (%s, 'localhost', PASSWORD(%s), ...) with (username, password): the
\* first parameter is the User column; (User, Host) is unique.
InsertUser(store, username, password) ==
    IF \E r \in store.users : r.username = username /\ r.host = "localhost"
    THEN Rejected(store, ErrDuplicate)
    ELSE Accepted([store EXCEPT !.users = @ \cup {[id |-> store.nextId,
                                                   username |-> username,
                                                   host |-> "localhost"]},
                                !.nextId = @ + 1])

\* DROP USER without IF EXISTS: no matching account is an error.
DropUser(store, name, host) ==
    IF \E r \in store.users : r.username = name /\ r.host = host
    THEN Accepted([store EXCEPT !.users = {r \in @ : ~(r.username = name /\ r.host = host)}])
    ELSE Rejected(store, ErrNoSuchUser)

\* DROP USER IF EXISTS %s@%s: the account is named by User and Host; no
\* matching account is no error.
DropUserIfExists(store, name, host) ==
    Accepted([store EXCEPT !.users = {r \in @ : ~(r.username = name /\ r.host = host)}])

\* The connector renders a bound int parameter as its decimal digits.
IntLiteral(n) == ToString(n)

\* SELECT User AS username, Host AS host FROM mysql.user
SelectUsers(store) == {[username |-> r.username, host |-> r.host] : r \in store.users}

\* -------------------------------------------------------------- connection
\* None, or (cnx, response): the response built on failure, which holds the
\* error's text, is dropped.
_get_connection(F, e) ==
    IF "connect" \in F
    THEN [none |-> TRUE, response |-> EmptyDict, errors |-> <<e>>]
    ELSE [none |-> FALSE,
          response |-> [success |-> TRUE,
                        message |-> <<"Connection to ", _HOST, " successful">>],
          errors |-> <<>>]

\* The helper with a data key already in the envelope it builds.
_get_pydb_connection_with_data(F, e, store) ==
    IF "connect" \in F \/ ~store.database
    THEN [none |-> TRUE, response |-> EmptyDict,
          errors |-> <<IF "connect" \in F THEN e ELSE ErrUnknownDb>>]
    ELSE [none |-> FALSE,
          response |-> [success |-> TRUE, data |-> {},
                        message |-> <<"Connection to ", _HOST, ", db ", _DB, " successful">>],
          errors |-> <<>>]

\* Connecting to a database that does not exist is a connection error.
_get_pydb_connection(F, e, store) ==
    IF "connect" \in F \/ ~store.database
    THEN [none |-> TRUE, response |-> EmptyDict,
          errors |-> <<IF "connect" \in F THEN e ELSE ErrUnknownDb>>]
    ELSE [none |-> FALSE,
          response |-> [success |-> TRUE,
                        message |-> <<"Connection to ", _HOST, ", db ", _DB, " successful">>],
          errors |-> <<>>]

\* finally: if cursor: cursor.close(); if cnx: cnx.close().  A raise in
\* cursor.close() skips cnx.close(), which leaves the connection open.
Finally(cursor, F, e) ==
    IF cursor /\ "cursor.close" \in F
    THEN [trace |-> Called("cursor.close", TRUE), raised |-> TRUE, closed |-> FALSE,
          errors |-> <<e>>]
    ELSE [trace |-> (IF cursor THEN Called("cursor.close", FALSE) ELSE <<>>)
                    \o Called("close", "close" \in F),
          raised |-> "close" \in F,
          closed |-> TRUE,
          errors |-> IF "close" \in F THEN <<e>> ELSE <<>>]

NoRollback == [trace |-> <<>>, raised |-> FALSE, errors |-> <<>>]

\* The except block without its rollback.
RollbackOmitted(F, e) == NoRollback

\* except Exception: ...; if cnx: cnx.rollback()
Rollback(F, e) ==
    [trace |-> Called("rollback", "rollback" \in F), raised |-> "rollback" \in F,
     errors |-> IF "rollback" \in F THEN <<e>> ELSE <<>>]

\* try: cursor = cnx.cursor(); cursor.execute(query, params); cnx.commit()
\* with exec the store's answer to the statement: how far the block got, the
\* calls it made and the error that ended it.
TryMutation(exec, F, e) ==
    LET cursor == "cursor" \notin F
        executed == cursor /\ "execute" \notin F /\ ~exec.raised
        committed == executed /\ "commit" \notin F
    IN [cursor |-> cursor, committed |-> committed,
        trace |-> Called("connect", FALSE) \o Called("cursor", ~cursor)
                  \o (IF cursor THEN Called("execute", ~executed) ELSE <<>>)
                  \o (IF executed THEN Called("commit", ~committed) ELSE <<>>),
        error |-> IF cursor /\ "execute" \notin F /\ exec.raised THEN exec.error ELSE e]

ConnectionFailed(message, result, store) ==
    Outcome([success |-> FALSE, message |-> message],
            FALSE, Called("connect", TRUE), <<>>, result.errors, FALSE, store)

\* -------------------------------------------------------------- operations
add_user(username, password, F, e, store) ==
    LET result == _get_pydb_connection(F, e, store) IN
    IF result.none
    THEN ConnectionFailed(<<"Database connection failed.">>, result, store)
    ELSE IF username = "" \/ password = ""
    THEN Outcome(SetKey(SetKey(result.response, "success", FALSE), "message",
                        <<"Missing required fields: username and/or password.">>),
                 FALSE, Called("connect", FALSE), <<>>, <<>>, TRUE, store)
    ELSE
    LET exec == InsertUser(store, username, password)
        try == TryMutation(exec, F, e)
        okResponse == SetKey(SetKey(result.response, "success", TRUE), "message",
                             <<"User ", username, " added successfully">>)
        errResponse == SetKey(SetKey(result.response, "success", FALSE), "message",
                              <<"Failed to add user ", username, ": ">> \o str(try.error))
        exc == IF try.committed THEN NoRollback ELSE Rollback(F, e)
        fin == Finally(try.cursor, F, e)
        raised == exc.raised \/ fin.raised
    IN Outcome(IF raised THEN EmptyDict ELSE IF try.committed THEN okResponse ELSE errResponse,
               raised, try.trace \o exc.trace \o fin.trace,
               IF try.cursor THEN <<Stmt("INSERT INTO mysql.user", username)>> ELSE <<>>,
               (IF try.committed THEN <<>> ELSE <<try.error>>) \o exc.errors \o fin.errors,
               ~fin.closed,
               IF try.committed THEN exec.db ELSE store)

delete_user(username, host, F, e, store) ==
    LET result == _get_pydb_connection(F, e, store) IN
    IF result.none
    THEN ConnectionFailed(<<"Database connection failed.">>, result, store)
    ELSE IF username = ""
    THEN Outcome(SetKey(SetKey(result.response, "success", FALSE), "message",
                        <<"Missing required field: username.">>),
                 FALSE, Called("connect", FALSE), <<>>, <<>>, TRUE, store)
    ELSE
    LET exec == DropUserIfExists(store, username, host)
        try == TryMutation(exec, F, e)
        okResponse == SetKey(SetKey(result.response, "success", TRUE), "message",
                             <<"Attempted to delete user ", username, "@", host, ".">>)
        errResponse == SetKey(SetKey(result.response, "success", FALSE), "message",
                              <<"Failed to delete user ", username, "@", host, ": ">>
                              \o str(try.error))
        exc == IF try.committed THEN NoRollback ELSE Rollback(F, e)
        fin == Finally(try.cursor, F, e)
        raised == exc.raised \/ fin.raised
    IN Outcome(IF raised THEN EmptyDict ELSE IF try.committed THEN okResponse ELSE errResponse,
               raised, try.trace \o exc.trace \o fin.trace,
               IF try.cursor THEN <<Stmt("DROP USER IF EXISTS", username)>> ELSE <<>>,
               (IF try.committed THEN <<>> ELSE <<try.error>>) \o exc.errors \o fin.errors,
               ~fin.closed,
               IF try.committed THEN exec.db ELSE store)

delete_user_by_id(user_id, F, e, store) ==
    LET result == _get_pydb_connection(F, e, store)
        host == "localhost"
    IN
    IF result.none
    THEN ConnectionFailed(<<"Database connection failed.">>, result, store)
    ELSE IF user_id = 0
    THEN Outcome(SetKey(SetKey(result.response, "success", FALSE), "message",
                        <<"Missing required field: username.">>),
                 FALSE, Called("connect", FALSE), <<>>, <<>>, TRUE, store)
    ELSE
    LET exec == DropUserIfExists(store, IntLiteral(user_id), host)
        try == TryMutation(exec, F, e)
        okResponse == SetKey(SetKey(result.response, "success", TRUE), "message",
                             <<"Attempted to delete user ", ToString(user_id), "@", host, ".">>)
        errResponse == SetKey(SetKey(result.response, "success", FALSE), "message",
                              <<"Failed to delete user ", ToString(user_id), "@", host, ": ">>
                              \o str(try.error))
        exc == IF try.committed THEN NoRollback ELSE Rollback(F, e)
        fin == Finally(try.cursor, F, e)
        raised == exc.raised \/ fin.raised
    IN Outcome(IF raised THEN EmptyDict ELSE IF try.committed THEN okResponse ELSE errResponse,
               raised, try.trace \o exc.trace \o fin.trace,
               IF try.cursor THEN <<Stmt("DROP USER IF EXISTS", IntLiteral(user_id))>> ELSE <<>>,
               (IF try.committed THEN <<>> ELSE <<try.error>>) \o exc.errors \o fin.errors,
               ~fin.closed,
               IF try.committed THEN exec.db ELSE store)

get_all_users(F, e, store) ==
    LET result == _get_pydb_connection(F, e, store) IN
    IF result.none
    THEN ConnectionFailed(<<"Database connection failed.">>, result, store)
    ELSE
    LET cursor == "cursor" \notin F
        executed == cursor /\ "execute" \notin F
        tryTrace == Called("connect", FALSE) \o Called("cursor", ~cursor)
                    \o (IF cursor THEN Called("execute", ~executed) ELSE <<>>)
        okResponse == SetKey(SetKey(SetKey(result.response, "success", TRUE),
                                    "data", SelectUsers(store)),
                             "message", <<"Users fetched successfully.">>)
        errResponse == SetKey(SetKey(result.response, "success", FALSE), "message",
                              <<"Failed to get users: ">> \o str(e))
        fin == Finally(cursor, F, e)
    IN Outcome(IF fin.raised THEN EmptyDict ELSE IF executed THEN okResponse ELSE errResponse,
               fin.raised, tryTrace \o fin.trace,
               IF cursor THEN <<Stmt("SELECT FROM mysql.user", "")>> ELSE <<>>,
               (IF executed THEN <<>> ELSE <<e>>) \o fin.errors,
               ~fin.closed, store)

\* CREATE DATABASE IF NOT EXISTS is DDL: it takes effect when it is executed.
db_init(F, e, store) ==
    LET result == _get_connection(F, e) IN
    IF result.none
    THEN ConnectionFailed(<<"Failed to connect to server for initialization.">>, result, store)
    ELSE
    LET cursor == "cursor" \notin F
        executed == cursor /\ "execute" \notin F
        tryTrace == Called("connect", FALSE) \o Called("cursor", ~cursor)
                    \o (IF cursor THEN Called("execute", ~executed) ELSE <<>>)
        okResponse == SetKey(SetKey(result.response, "success", TRUE), "message",
                             <<"Database ", _DB, " created or already exists.">>)
        errResponse == SetKey(SetKey(result.response, "success", FALSE), "message",
                              IF e.kind = "mysql"
                              THEN <<"Error during database creation: ", e.msg>>
                              ELSE <<"Failed to execute database creation query: ">> \o str(e))
        fin == Finally(cursor, F, e)
    IN Outcome(IF fin.raised THEN EmptyDict ELSE IF executed THEN okResponse ELSE errResponse,
               fin.raised, tryTrace \o fin.trace,
               IF cursor THEN <<Stmt("CREATE DATABASE IF NOT EXISTS", _DB)>> ELSE <<>>,
               (IF executed THEN <<>> ELSE <<e>>) \o fin.errors,
               ~fin.closed,
               IF executed THEN [store EXCEPT !.database = TRUE] ELSE store)

\* ------------------------------------------------------ log schema script
\* query_dict["create_triggers_query"]: the text as tokens, ";" and the
\* whitespace between statements included.
TriggerNames == <<"after_user_insert", "after_user_update", "after_user_delete">>

Semicolon == Tok(";", "")
Blank == Tok(" ", "")

TriggerText(name) ==
    <<Blank, Tok("DROP TRIGGER IF EXISTS", name), Semicolon,
      Blank, Tok("CREATE TRIGGER", name), Tok("BEGIN", ""),
      Tok("INSERT INTO mysqli_logs", name), Semicolon,
      Blank, Tok("END", ""), Semicolon>>

create_triggers_query ==
    TriggerText(TriggerNames[1]) \o TriggerText(TriggerNames[2])
    \o TriggerText(TriggerNames[3]) \o <<Blank>>

\* str.split(';'): the pieces between the separators, empty pieces kept.
RECURSIVE split(_)
split(text) ==
    IF text = <<>> THEN << <<>> >>
    ELSE LET rest == split(Tail(text)) IN
         IF Head(text) = Semicolon
         THEN << <<>> >> \o rest
         ELSE << <<Head(text)>> \o Head(rest) >> \o Tail(rest)

\* str.strip(): leading and trailing whitespace removed.
RECURSIVE lstrip(_)
lstrip(q) == IF q # <<>> /\ Head(q) = Blank THEN lstrip(Tail(q)) ELSE q

RECURSIVE rstrip(_)
rstrip(q) == IF q # <<>> /\ q[Len(q)] = Blank THEN rstrip(SubSeq(q, 1, Len(q) - 1)) ELSE q

strip(q) == rstrip(lstrip(q))

\* The store accepts one complete statement per execute: a DROP TRIGGER, or a
\* CREATE TRIGGER whose BEGIN block is closed by its END.
Count(q, kw) == Cardinality({i \in 1..Len(q) : q[i].kw = kw})

Executable(q) ==
    /\ q # <<>>
    /\ \/ Len(q) = 1 /\ q[1].kw = "DROP TRIGGER IF EXISTS"
       \/ /\ q[1].kw = "CREATE TRIGGER"
          /\ Count(q, "BEGIN") = 1
          /\ q[Len(q)].kw = "END"
          /\ Count(q, "END") = 1

ExecTrigger(store, q) ==
    IF q[1].kw = "CREATE TRIGGER"
    THEN [store EXCEPT !.triggers = @ \cup {q[1].name}]
    ELSE [store EXCEPT !.triggers = @ \ {q[1].name}]

\* for query in trigger_queries: q = query.strip(); if q: cursor.execute(q)
\* The statements handed to execute, up to and including the first that raises.
RECURSIVE RunTriggers(_, _)
RunTriggers(queries, store) ==
    IF queries = <<>> THEN [stmts |-> <<>>, failed |-> FALSE, db |-> store]
    ELSE LET q == strip(Head(queries)) IN
         IF q = <<>> THEN RunTriggers(Tail(queries), store)
         ELSE IF ~Executable(q) THEN [stmts |-> <<q>>, failed |-> TRUE, db |-> store]
         ELSE LET rest == RunTriggers(Tail(queries), ExecTrigger(store, q))
              IN [rest EXCEPT !.stmts = <<q>> \o @]

trigger_queries == split(create_triggers_query)

Executes(n, lastRaised) ==
    [i \in 1..n |-> [call |-> "execute", raised |-> (i = n /\ lastRaised)]]

\* An injected execute failure hits the first execute, the CREATE TABLE.
mysqli_logs_init(F, e, store) ==
    LET result == _get_pydb_connection(F, e, store) IN
    IF result.none
    THEN ConnectionFailed(<<"Failed to connect to database for logs initialization.">>,
                          result, store)
    ELSE
    LET cursor == "cursor" \notin F
        tableErr == IF "execute" \in F THEN e
                    ELSE [kind |-> "mysql", errno |-> ER_TABLE_EXISTS_ERROR,
                          msg |-> "Table already exists"]
        tableRaised == cursor /\ ("execute" \in F \/ store.logsTable)
        tableSkipped == tableRaised /\ tableErr.kind = "mysql"
                        /\ tableErr.errno = ER_TABLE_EXISTS_ERROR
        tableOk == cursor /\ (~tableRaised \/ tableSkipped)
        afterTable == IF cursor /\ ~tableRaised THEN [store EXCEPT !.logsTable = TRUE]
                      ELSE store
        run == IF tableOk THEN RunTriggers(trigger_queries, afterTable)
               ELSE [stmts |-> <<>>, failed |-> FALSE, db |-> afterTable]
        ok == tableOk /\ ~run.failed
        err == IF ~cursor THEN e ELSE IF ~tableOk THEN tableErr ELSE ErrSyntax
        okResponse == SetKey(SetKey(result.response, "success", TRUE), "message",
                             <<"Table and triggers initialized successfully.">>)
        errResponse == SetKey(SetKey(result.response, "success", FALSE), "message",
                              <<"Failed to initialize logs/triggers: ">> \o str(err))
        stmts == IF cursor THEN <<Stmt("CREATE TABLE", "mysql.mysqli_logs")>> \o run.stmts
                 ELSE <<>>
        fin == Finally(cursor, F, e)
    IN Outcome(IF fin.raised THEN EmptyDict ELSE IF ok THEN okResponse ELSE errResponse,
               fin.raised,
               Called("connect", FALSE) \o Called("cursor", ~cursor)
               \o (IF run.stmts = <<>> THEN Executes(Len(stmts), tableRaised)
                   ELSE Called("execute", tableRaised)
                        \o Executes(Len(run.stmts), run.failed))
               \o fin.trace,
               stmts,
               (IF ok THEN <<>> ELSE <<err>>) \o fin.errors,
               ~fin.closed, run.db)

\* ------------------------------------------------------------------ routes
\* flask.jsonify: a 200 response whose body is the JSON text of its argument.
\* A dict becomes a JSON object, a list a JSON array.
jsonify(value) == [status |-> 200, body |-> [type |-> "object", value |-> value]]

\* A handler that raises is answered by the framework with a 500.
ServerError == [status |-> 500, body |-> [type |-> "none", value |-> EmptyDict]]

NoResponse == [status |-> 0, body |-> [type |-> "none", value |-> EmptyDict]]

\* @app.route("/users"): data = get_all_users(); return jsonify(data)
get_users(out) == IF out.raised THEN ServerError ELSE jsonify(out.env)

\* ------------------------------------------------------------ state machine
\* db: the store.  last: the last call and what it handed back.  repeat:
\* whether the last call was a delete_user_by_id that directly followed a
\* delete_user_by_id of the same id that returned success.  added: the
\* usernames add_user reported added since the last delete call.  http: the
\* response of the route when the last call came through get_users.
Call(op, args, F, out) ==
    [op |-> op, args |-> args,
     faults |-> F \cap {out.trace[i].call : i \in 1..Len(out.trace)},
     env |-> out.env, raised |-> out.raised, trace |-> out.trace,
     stmts |-> out.stmts, errors |-> out.errors, open |-> out.open]

Succeeded(out) == ~out.raised /\ out.env["success"]

Init ==
    /\ db = InitialStore
    /\ last = [op |-> "none", args |-> <<>>, faults |-> {}, env |-> EmptyDict, raised |-> FALSE,
               trace |-> <<>>, stmts |-> <<>>, errors |-> <<>>, open |-> FALSE]
    /\ repeat = FALSE
    /\ added = {}
    /\ http = NoResponse

Step(op, args, F, out) ==
    /\ db' = out.db
    /\ last' = Call(op, args, F, out)
    /\ repeat' = (/\ op = "delete_user_by_id"
                  /\ last.op = "delete_user_by_id"
                  /\ last.args = args
                  /\ ~last.raised
                  /\ last.env["success"])

\* Each operation, with the fault plans the store may follow.
DbInit(plans) ==
    \E F \in plans, e \in Errors :
        /\ Step("db_init", <<>>, F, db_init(F, e, db))
        /\ UNCHANGED <<added>>
        /\ http' = NoResponse

LogsInit(plans) ==
    \E F \in plans, e \in Errors :
        /\ Step("mysqli_logs_init", <<>>, F, mysqli_logs_init(F, e, db))
        /\ UNCHANGED <<added>>
        /\ http' = NoResponse

\* The route handler get_users, the call of get_all_users it makes included.
GetUsers(plans) ==
    \E F \in plans, e \in Errors :
        LET out == get_all_users(F, e, db) IN
        /\ Step("get_all_users", <<>>, F, out)
        /\ UNCHANGED <<added>>
        /\ http' = get_users(out)

AddUser(plans) ==
    \E username \in Usernames, password \in Passwords, F \in plans, e \in Errors :
        LET out == add_user(username, password, F, e, db) IN
        /\ db.nextId <= MaxId
        /\ Step("add_user", <<username, password>>, F, out)
        /\ added' = IF Succeeded(out) THEN added \cup {username} ELSE added
        /\ http' = NoResponse

DeleteUser(plans) ==
    \E username \in Usernames, host \in Hosts, F \in plans, e \in Errors :
        /\ Step("delete_user", <<username, host>>, F, delete_user(username, host, F, e, db))
        /\ added' = {}
        /\ http' = NoResponse

DeleteUserById(plans) ==
    \E user_id \in UserIds, F \in plans, e \in Errors :
        /\ Step("delete_user_by_id", <<user_id>>, F, delete_user_by_id(user_id, F, e, db))
        /\ added' = {}
        /\ http' = NoResponse

\* Calls on the store may fail.
Next ==
    \/ DbInit(FaultPlans)
    \/ LogsInit(FaultPlans)
    \/ GetUsers(FaultPlans)
    \/ AddUser(FaultPlans)
    \/ DeleteUser(FaultPlans)
    \/ DeleteUserById(FaultPlans)

Spec == Init /\ [][Next]_vars

\* No call on the store fails, unless the store itself rejects it.
NoFaults == {{}}

NextHealthy ==
    \/ DbInit(NoFaults)
    \/ LogsInit(NoFaults)
    \/ GetUsers(NoFaults)
    \/ AddUser(NoFaults)
    \/ DeleteUser(NoFaults)
    \/ DeleteUserById(NoFaults)

SpecHealthy == Init /\ [][NextHealthy]_vars

\* ------------------------------------------------------------------ claims
Ops == {"db_init", "mysqli_logs_init", "get_all_users", "add_user", "delete_user",
        "delete_user_by_id"}

Mutations == {"add_user", "delete_user", "delete_user_by_id"}

Returned == last.op \in Ops /\ ~last.raised

ReturnedSuccess == Returned /\ last.env["success"]

ReturnedFailure == Returned /\ ~last.env["success"]

Connected(c) == c.trace # <<>> /\ ~c.trace[1].raised

Texts(message) == {message[i] : i \in 1..Len(message)}

NonEmpty(message) == \E i \in 1..Len(message) : message[i] # ""

Raised(c, site) == \E i \in 1..Len(c.trace) : c.trace[i].call = site /\ c.trace[i].raised

Invoked(c, site) == \E i \in 1..Len(c.trace) : c.trace[i].call = site

\* C1: an operation that opened a connection has closed it when it ends, on
\* every exit path.
C1_ConnectionReleased == (last.op \in Ops /\ Connected(last)) => ~last.open

\* C2: add_user with an empty username or password, and delete_user_by_id
\* with a zero id, make no call on the store at all and return success=false
\* with the validation message, whether the store is available or not.
C2_ValidationBeforeConnecting ==
    /\ (last.op = "add_user" /\ (last.args[1] = "" \/ last.args[2] = ""))
       => /\ last.trace = <<>>
          /\ ReturnedFailure
          /\ last.env["message"] = <<"Missing required fields: username and/or password.">>
    /\ (last.op = "delete_user_by_id" /\ last.args[1] = 0)
       => /\ last.trace = <<>>
          /\ ReturnedFailure
          /\ last.env["message"] = <<"Missing required field: username.">>

\* C3: whatever calls on the store fail, an operation ends by returning an
\* envelope and never by raising.
C3_NoErrorEscapes == last.op \in Ops => ~last.raised

\* C4: a returned envelope with success=false has no data key and a non-empty
\* message.
C4_FailureEnvelope ==
    ReturnedFailure => ("data" \notin DOMAIN last.env /\ NonEmpty(last.env["message"]))

\* The query of get_all_users failed after the connection helper had built
\* its success envelope.
C4_Witness ==
    /\ last.op = "get_all_users"
    /\ ReturnedFailure
    /\ Raised(last, "execute")

\* C5: a get_all_users that returns success lists every username that
\* add_user reported added since the last delete call.
C5_AddedUsersListed ==
    (last.op = "get_all_users" /\ ReturnedSuccess)
    => \A u \in added : \E r \in last.env["data"] : r.username = u

C5_Witness ==
    /\ last.op = "get_all_users"
    /\ ReturnedSuccess
    /\ "bob" \in added
    /\ \E r \in last.env["data"] : r.username = "bob"

\* C6: delete_user_by_id with a non-zero id, connected and with no call on the
\* store failing, returns success=true whether or not an account matched; so
\* do two such calls in a row.
C6_DeleteIdempotent ==
    (/\ last.op = "delete_user_by_id"
     /\ last.args[1] # 0
     /\ Connected(last)
     /\ last.faults = {})
    => ReturnedSuccess

\* The second of two delete_user_by_id calls with the same id in a row.
C6_Witness ==
    /\ repeat
    /\ last.args[1] # 0
    /\ last.faults = {}
    /\ ReturnedSuccess

CommitAfterExecute ==
    \A i \in 1..Len(last.trace) :
        last.trace[i].call = "commit"
        => i > 1 /\ last.trace[i - 1].call = "execute" /\ ~last.trace[i - 1].raised

RollbackBeforeClose ==
    \A i \in 1..Len(last.trace) :
        (last.trace[i].call \in {"cursor", "execute", "commit"} /\ last.trace[i].raised)
        => \E j \in (i + 1)..Len(last.trace) :
              /\ last.trace[j].call = "rollback"
              /\ \A k \in 1..j : last.trace[k].call # "close"

\* C7 as stated: in the mutating operations commit follows an execute that
\* did not raise, every failure of cursor, execute or commit is followed by a
\* rollback before the connection is closed, and after an add_user whose
\* insert failed the stored users do not include the attempted username.
C7_Original ==
    /\ last.op \in Mutations => (CommitAfterExecute /\ RollbackBeforeClose)
    /\ (last.op = "add_user" /\ Raised(last, "execute"))
       => ~\E r \in db.users : r.username = last.args[1]

\* C7 as amended: the same order of commit and rollback, and an add_user
\* whose insert failed leaves the stored users as they were before the call.
C7_RollbackDiscipline ==
    /\ [](last.op \in Mutations => (CommitAfterExecute /\ RollbackBeforeClose))
    /\ [][(last'.op = "add_user" /\ Raised(last', "execute")) => db' = db]_vars

C7_Witness ==
    /\ last.op = "add_user"
    /\ Raised(last, "execute")
    /\ Invoked(last, "rollback")
    /\ ~last.open
    /\ \E r \in db.users : r.username = last.args[1]

\* C8: a delete_user_by_id that returns success leaves exactly the rows whose
\* id differs from the given id.
C8_DeleteById ==
    [][(last'.op = "delete_user_by_id" /\ ~last'.raised /\ last'.env["success"])
       => db'.users = {r \in db.users : r.id # last'.args[1]}]_vars

\* C9: a success=false envelope returned after a connection or store error
\* carries the text of that error in its message.
C9_ErrorTextInMessage ==
    (ReturnedFailure /\ last.errors # <<>>)
    => last.errors[1].msg \in Texts(last.env["message"])

\* C10: after a successful get_all_users the body of the route's response is
\* the array in the envelope's data, not the envelope.
C10_BodyIsData ==
    (last.op = "get_all_users" /\ ReturnedSuccess)
    => /\ http.status = 200
       /\ http.body.type = "array"
       /\ http.body.value = last.env["data"]

\* The statements of the trigger script, whole and in script order: for each
\* trigger its DROP TRIGGER, then its CREATE TRIGGER from the name to the END
\* of its body, the body's own semicolon included.
WholeTrigger(name) ==
    << <<Tok("DROP TRIGGER IF EXISTS", name)>>,
       <<Tok("CREATE TRIGGER", name), Tok("BEGIN", ""),
         Tok("INSERT INTO mysqli_logs", name), Semicolon, Blank, Tok("END", "")>> >>

ScriptStatements ==
    WholeTrigger(TriggerNames[1]) \o WholeTrigger(TriggerNames[2])
    \o WholeTrigger(TriggerNames[3])

\* The fragments of the script that mysqli_logs_init handed to execute, after
\* its CREATE TABLE.
TriggerFragments(c) == SubSeq(c.stmts, 2, Len(c.stmts))

\* C11: every fragment of the trigger script that mysqli_logs_init hands to
\* one execute call is a complete statement, a DROP TRIGGER or a whole CREATE
\* TRIGGER ... BEGIN ... END, and the fragments are handed over in script
\* order; none is a trigger body cut at its inner semicolon or a lone END.
C11_CompleteStatements ==
    last.op = "mysqli_logs_init"
    => LET frags == TriggerFragments(last) IN
       /\ Len(frags) <= Len(ScriptStatements)
       /\ \A i \in 1..Len(frags) :
             /\ Executable(frags[i])
             /\ frags[i] = ScriptStatements[i]

====
